---- MODULE Spec2Model ----
(***************************************************************************)
(* Two-stage consultant lookup: process_chat_message (database_agent.py)   *)
(* and its UI wrapper process_user_message_async (app.py).                 *)
(*                                                                         *)
(* Text is modelled as a sequence of one-character strings, so that        *)
(* str.strip(), the "?" test and the f-string concatenations are computed  *)
(* as the code computes them.  The language model, the MCP tool process    *)
(* and the MCP client library are the environment: their answers and       *)
(* failures are drawn nondeterministically.                                *)
(***************************************************************************)
EXTENDS Integers, Sequences, FiniteSets, TLC

(***************************************************************************)
(* Bounds of the model.                                                    *)
(***************************************************************************)
\* longest text the classifier model or the query model answers with
MaxLen == 2
\* longest user message
MaxMsgLen == 1

(***************************************************************************)
(* String literals of the source, as character sequences.                  *)
(***************************************************************************)
MissingPrefix ==
    <<"E","r","r","o","r",":"," ","M","i","s","s","i","n","g"," ","e","n","v",
      "i","r","o","n","m","e","n","t"," ","v","a","r","i","a","b","l","e","s",
      ":"," ">>

CommaSpace ==
    <<","," ">>

DefaultQuestion ==
    <<"C","o","u","l","d"," ","y","o","u"," ","d","e","s","c","r","i","b","e",
      " ","y","o","u","r"," ","s","y","m","p","t","o","m","s","?">>

UnableToFetchPrefix ==
    <<"E","r","r","o","r",":"," ","U","n","a","b","l","e"," ","t","o"," ","f",
      "e","t","c","h"," ","c","o","n","s","u","l","t","a","n","t","s",":"," ">>

EnterValidMessage ==
    <<"P","l","e","a","s","e"," ","e","n","t","e","r"," ","a"," ","v","a","l",
      "i","d"," ","m","e","s","s","a","g","e",".">>

TimeoutMessage ==
    <<"E","r","r","o","r",":"," ","D","a","t","a","b","a","s","e"," ","q","u",
      "e","r","y"," ","t","i","m","e","d"," ","o","u","t"," ","a","f","t","e",
      "r"," ","3","0"," ","s","e","c","o","n","d","s","."," ","P","l","e","a",
      "s","e"," ","c","h","e","c","k"," ","i","f"," ","t","h","e"," ","d","a",
      "t","a","b","a","s","e"," ","s","e","r","v","e","r"," ","i","s"," ","r",
      "u","n","n","i","n","g",".">>

ProcessingErrorPrefix ==
    <<"E","r","r","o","r"," ","p","r","o","c","e","s","s","i","n","g"," ","m",
      "e","s","s","a","g","e",":"," ">>

ProcessingErrorSuffix ==
    <<"\n","P","l","e","a","s","e"," ","c","h","e","c","k"," ","i","f"," ",
      "'","u","v","x"," ","m","c","p","-","s","q","l","-","s","e","r","v","e",
      "r","'"," ","i","s"," ","a","c","c","e","s","s","i","b","l","e"," ","a",
      "n","d"," ","t","h","e"," ","d","a","t","a","b","a","s","e"," ","i","s",
      " ","r","u","n","n","i","n","g",".">>

FoundConsultants ==
    <<"F","o","u","n","d"," ","c","o","n","s","u","l","t","a","n","t","s",":">>

NoConsultantsFound ==
    <<"N","o"," ","c","o","n","s","u","l","t","a","n","t","s"," ","f","o","u",
      "n","d","."," ","P","l","e","a","s","e"," ","p","r","o","v","i","d","e",
      " ","m","o","r","e"," ","d","e","t","a","i","l","s"," ","o","r"," ","c",
      "h","e","c","k"," ","s","p","e","l","l","i","n","g",".">>

\* the text of each required variable's name
VarText(v) ==
    CASE v = "DB_HOST" -> <<"D","B","_","H","O","S","T">>
      [] v = "DB_USER" -> <<"D","B","_","U","S","E","R">>
      [] v = "DB_PASSWORD" -> <<"D","B","_","P","A","S","S","W","O","R","D">>
      [] v = "DB_NAME" -> <<"D","B","_","N","A","M","E">>

\* mutant of required_variables: the names in alphabetical order
required_variables_sorted ==
    <<"DB_HOST", "DB_NAME", "DB_PASSWORD", "DB_USER">>

\* required_variables, in the order the source lists them
required_variables ==
    <<"DB_HOST", "DB_USER", "DB_PASSWORD", "DB_NAME">>

(***************************************************************************)
(* Text helpers: the Python string operations the code uses.               *)
(***************************************************************************)
\* characters str.strip() removes
IsSpace(c) ==
    c \in {" ", "\n", "\t"}

RECURSIVE LStrip(_)
LStrip(s) ==
    IF s # <<>> /\ IsSpace(Head(s)) THEN LStrip(Tail(s)) ELSE s

RECURSIVE RStrip(_)
RStrip(s) ==
    IF s # <<>> /\ IsSpace(s[Len(s)])
    THEN RStrip(SubSeq(s, 1, Len(s) - 1))
    ELSE s

\* str.strip()
Strip(s) ==
    RStrip(LStrip(s))

\* `sub in text`
Contains(text, sub) ==
    \E i \in 0..(Len(text) - Len(sub)) :
        SubSeq(text, i + 1, i + Len(sub)) = sub

\* `"?" in text`
HasQuestionMark(text) ==
    Contains(text, <<"?">>)

\* ', '.join(names) for a sequence of variable names
RECURSIVE JoinNames(_)
JoinNames(names) ==
    IF names = <<>> THEN <<>>
    ELSE IF Len(names) = 1 THEN VarText(names[1])
    ELSE VarText(names[1]) \o CommaSpace \o JoinNames(Tail(names))

(***************************************************************************)
(* Inputs and environment answers.                                         *)
(***************************************************************************)
Char ==
    {" ", "?", "a"}

TextsUpTo(n) ==
    UNION {[1..k -> Char] : k \in 0..n}

\* texts a model call can answer with
ModelTexts ==
    TextsUpTo(MaxLen)

\* final texts of the query agent: short texts, a consultant listing (with
\* and without a question in it) and the no-match sentence
QueryTexts ==
    ModelTexts
    \cup {FoundConsultants \o <<" ","[","a","]">>,
          FoundConsultants \o <<" ","[","a","]","?">>,
          NoConsultantsFound}

\* user messages
Messages ==
    UNION {[1..k -> {" ", "a"}] : k \in 0..MaxMsgLen}

\* str(e) of an exception raised by the model, the transport or the tool
ExcMessages ==
    {<<"e">>}

\* values a DB_* variable can have when it is present in the environment
EnvValues ==
    {"", "v"}

\* the process environment: a partial map from the DB_* names to values
Environments ==
    UNION {[S -> EnvValues] :
             S \in SUBSET {"DB_HOST", "DB_USER", "DB_PASSWORD", "DB_NAME"}}

Statuses ==
    {"success", "clarification", "error"}

(***************************************************************************)
(* State.                                                                  *)
(***************************************************************************)
VARIABLES
    environ,            \* os.environ restricted to the four DB_* names
    session_has_close,  \* hasattr(session, 'close') for the library in use
    entry,              \* "core": call_function (test.py); "ui": process_user_message_async
    user_message,       \* the message argument
    wpc,                \* position of the caller: "start", "waiting", "done"
    pc,                 \* position inside process_chat_message
    classifier_content, \* specialty_response.content
    classifierReturned, \* symptom_analyzer.arun has returned
    response_content,   \* specialty_response.content.strip()
    query_content,      \* db_response.content
    queryReturned,      \* database_agent.arun has returned
    outcome,            \* what process_chat_message is about to deliver / has delivered
    wresult,            \* what the caller got
    transport,          \* the stdio_client context: "none", "open", "closed"
    session,            \* the ClientSession context: "none", "open", "closed"
    db_agent_session,   \* db_agent.session is not None
    initialized,        \* session.initialize() has returned
    classifyCalls,      \* calls of symptom_analyzer.arun
    spawnCalls,         \* entries of stdio_client(server_parameters)
    queryCalls,         \* calls of database_agent.arun
    sessionExitCalls,   \* exits of the `async with ClientSession` block
    cleanupCloseCalls,  \* calls of session.close() in DatabaseAgent.cleanup
    raisedAt,           \* the first stage that raised an Exception, or "none"
    teardownFailed,     \* a context exit or session.close() raised
    cancelledAt,        \* the await at which CancelledError was delivered, or "none"
    timedOut            \* the cancellation came from wait_for's timeout

\* st.session_state of one browser session of app.py, and what its script
\* runs hand to process_user_message_async
VARIABLES
    conversation_history, \* st.session_state.conversation_history
    processing,           \* st.session_state.processing
    input_key,            \* st.session_state.input_key
    history_arg,          \* the conversation_history argument of the last invocation
    turn_status           \* for each turn, the status of the result that resolved it

uiVars ==
    <<conversation_history, processing, input_key, history_arg, turn_status>>

\* two runs of one invocation that differ only in the credential values
VARIABLES
    leak_env_a,     \* the DB_* variables of the first run
    leak_env_b,     \* the DB_* variables of the second run
    leak_script,    \* the model and tool behaviour, the same in both runs
    leak_result_a,  \* what the caller of the first run got
    leak_result_b,  \* what the caller of the second run got
    leak_pc         \* "start", "first", "done"

leakVars ==
    <<leak_env_a, leak_env_b, leak_script, leak_result_a, leak_result_b,
      leak_pc>>

\* two invocations of process_chat_message running in one event loop
VARIABLES
    c_pc,           \* where each invocation stands
    c_script,       \* the answers each invocation has been given
    c_outcome,      \* each invocation's outcome, in flight or final
    c_session,      \* each invocation's local `session`: an index, or 0
    agent_session,  \* DatabaseAgent.session of each DatabaseAgent object
    sessions,       \* every session opened so far: its owner, and if open
    c_uses          \* who has called or closed which session

concVars ==
    <<c_pc, c_script, c_outcome, c_session, agent_session, sessions, c_uses>>

\* the standalone flow of agent.py: main and
\* analyze_symptoms_and_find_consultants
VARIABLES
    a_pc,             \* where the standalone run stands
    specialties,      \* the classifier's trimmed answer
    a_classifierReturned,
    a_outcome,        \* what analyze_symptoms_and_find_consultants ends with
    a_transport,      \* "none", "open", "closed"
    a_session,        \* "none", "open", "closed"
    a_failedAt,       \* the first stage that raised, or "none"
    a_classifyCalls,
    a_spawnCalls,
    a_queryCalls,
    a_cleanupCalls,
    exit_code         \* what main returns; -1 while it runs

agentVars ==
    <<a_pc, specialties, a_classifierReturned, a_outcome, a_transport,
      a_session, a_failedAt, a_classifyCalls, a_spawnCalls, a_queryCalls,
      a_cleanupCalls, exit_code>>

\* the variables outside the single invocation of process_chat_message
otherVars ==
    <<uiVars, leakVars, concVars, agentVars>>

\* the variables of the single invocation of process_chat_message
coreVars ==
    <<environ, session_has_close, entry, user_message, wpc, pc,
      classifier_content, classifierReturned, response_content, query_content,
      queryReturned, outcome, wresult, transport, session, db_agent_session,
      initialized, classifyCalls, spawnCalls, queryCalls, sessionExitCalls,
      cleanupCloseCalls, raisedAt, teardownFailed, cancelledAt, timedOut>>

vars ==
    <<coreVars, otherVars>>

\* the value a Python None is modelled by: no character sequence equals it
None ==
    <<"None">>

\* app.py lines 43-48: the session state of a fresh browser session
UiIdle ==
    /\ conversation_history = <<>>
    /\ processing = FALSE
    /\ input_key = 0
    /\ history_arg = <<>>
    /\ turn_status = <<>>

\* a script that answers nothing
NoScript ==
    [entry |-> "core", message |-> <<>>, classifier_raises |-> FALSE,
     classifier |-> <<>>,
     failAt |-> "none", exitFails |-> FALSE, echo |-> FALSE, query |-> <<>>]

\* no pair of runs is being compared
LeakIdle ==
    /\ leak_env_a = << >>
    /\ leak_env_b = << >>
    /\ leak_script = NoScript
    /\ leak_result_a = [kind |-> "none", response |-> <<>>, status |-> ""]
    /\ leak_result_b = [kind |-> "none", response |-> <<>>, status |-> ""]
    /\ leak_pc = "idle"

\* no pair of invocations is running
ConcIdle ==
    /\ c_pc = << >>
    /\ c_script = << >>
    /\ c_outcome = << >>
    /\ c_session = << >>
    /\ agent_session = << >>
    /\ sessions = << >>
    /\ c_uses = {}

\* the standalone flow is not running
AgentIdle ==
    /\ a_pc = "idle"
    /\ specialties = <<>>
    /\ a_classifierReturned = FALSE
    /\ a_outcome = [kind |-> "none", response |-> <<>>, status |-> ""]
    /\ a_transport = "none"
    /\ a_session = "none"
    /\ a_failedAt = "none"
    /\ a_classifyCalls = 0
    /\ a_spawnCalls = 0
    /\ a_queryCalls = 0
    /\ a_cleanupCalls = 0
    /\ exit_code = -1

\* the variables of the invocation's inputs
inputVars ==
    <<environ, session_has_close, entry, user_message>>

\* the variables of the model answers
answerVars ==
    <<classifier_content, classifierReturned, response_content, query_content,
      queryReturned>>

\* the variables of the session resources
resourceVars ==
    <<transport, session, db_agent_session, initialized>>

\* the call counters
counterVars ==
    <<classifyCalls, spawnCalls, queryCalls, sessionExitCalls, cleanupCloseCalls>>

(***************************************************************************)
(* Outcomes: a returned dict, a raised Exception, a raised CancelledError. *)
(***************************************************************************)
NoOutcome ==
    [kind |-> "none", response |-> <<>>, status |-> ""]

\* {"response": response, "status": status}
Return(response, status) ==
    [kind |-> "return", response |-> response, status |-> status]

\* an Exception e with str(e) = msg
Raised(msg) ==
    [kind |-> "exception", response |-> msg, status |-> ""]

\* asyncio.CancelledError (a BaseException, not an Exception)
Cancelled ==
    [kind |-> "cancelled", response |-> <<>>, status |-> ""]

(***************************************************************************)
(* process_chat_message, database_agent.py                                 *)
(***************************************************************************)
\* mutant of NotSet: only an unset variable counts as missing
NotSetUnsetOnly(v) ==
    v \notin DOMAIN environ

\* `not os.getenv(var)`: unset or empty
NotSet(v) ==
    ~(v \in DOMAIN environ /\ environ[v] # "")

\* missing_variables
missing_variables ==
    SelectSeq(required_variables, NotSet)

\* the result returned when variables are missing
MissingVariablesResult(missing) ==
    Return(MissingPrefix \o JoinNames(missing), "error")

\* mutant of NeedsClarification: the "?" test is dropped
NeedsClarificationEmptyOnly(content) ==
    content = <<>>

\* `not response_content or "?" in response_content`
NeedsClarification(content) ==
    content = <<>> \/ HasQuestionMark(content)

\* mutant of ClarificationResponse: no default question
ClarificationResponseRaw(content) ==
    content

\* `response_content or "Could you describe your symptoms?"`
ClarificationResponse(content) ==
    IF content # <<>> THEN content ELSE DefaultQuestion

\* the dict returned after database_agent.arun
QueryResult(content) ==
    Return(Strip(content), "success")

\* mutant of HandleException: the exception is raised again
HandleExceptionReraise(o) ==
    o

\* the `except Exception as e` clause of process_chat_message
HandleException(o) ==
    IF o.kind = "exception"
    THEN Return(UnableToFetchPrefix \o o.response, "error")
    ELSE o

\* mutant of RaiseAt: the body is not inside the `async with` blocks
RaiseAtNoUnwind(p) ==
    "except"

\* mutant of RaiseAt: a failed stage is tried again from the spawn
RaiseAtRetry(p) ==
    "spawn"

\* mutant of RaiseAt: the failure is dropped and the next stage entered
RaiseAtSwallowed(p) ==
    CASE p = "spawn" -> "enter_session"
      [] p = "enter_session" -> "initialize"
      [] p = "initialize" -> "create_agent"
      [] p = "create_agent" -> "query"
      [] p = "query" -> "exit_session"

\* where control goes when the await at position p raises: out of the
\* `async with` blocks entered so far, innermost first, then to the except
\* clause
RaiseAt(p) ==
    CASE p = "spawn" -> "except"
      [] p = "enter_session" -> "exit_transport"
      [] p \in {"initialize", "create_agent", "query"} -> "exit_session"

Init ==
    /\ environ \in Environments
    /\ session_has_close \in BOOLEAN
    /\ entry \in {"core", "ui"}
    /\ user_message \in Messages
    /\ wpc = "start"
    /\ pc = "idle"
    /\ classifier_content = <<>>
    /\ classifierReturned = FALSE
    /\ response_content = <<>>
    /\ query_content = <<>>
    /\ queryReturned = FALSE
    /\ outcome = NoOutcome
    /\ wresult = NoOutcome
    /\ transport = "none"
    /\ session = "none"
    /\ db_agent_session = FALSE
    /\ initialized = FALSE
    /\ classifyCalls = 0
    /\ spawnCalls = 0
    /\ queryCalls = 0
    /\ sessionExitCalls = 0
    /\ cleanupCloseCalls = 0
    /\ raisedAt = "none"
    /\ teardownFailed = FALSE
    /\ cancelledAt = "none"
    /\ timedOut = FALSE
    /\ UiIdle
    /\ LeakIdle
    /\ ConcIdle
    /\ AgentIdle

\* lines 161-168: the variable check, then the classifier is created and
\* its arun awaited
CheckEnvironment ==
    /\ pc = "start"
    /\ IF missing_variables # <<>>
       THEN /\ outcome' = MissingVariablesResult(missing_variables)
            /\ pc' = "done"
            /\ UNCHANGED classifyCalls
       ELSE /\ pc' = "classify"
            /\ classifyCalls' = classifyCalls + 1
            /\ UNCHANGED outcome
    /\ UNCHANGED <<otherVars, inputVars, answerVars, resourceVars, wpc, wresult, spawnCalls,
                   queryCalls, sessionExitCalls, cleanupCloseCalls, raisedAt,
                   teardownFailed, cancelledAt, timedOut>>

\* lines 181-210: the classifier answers; a clarification returns at once,
\* otherwise the server parameters are built and stdio_client is entered
ClassifierReturns ==
    /\ pc = "classify"
    /\ \E text \in ModelTexts :
         /\ classifier_content' = text
         /\ classifierReturned' = TRUE
         /\ response_content' = Strip(text)
         /\ IF NeedsClarification(Strip(text))
            THEN /\ outcome' = Return(ClarificationResponse(Strip(text)),
                                      "clarification")
                 /\ pc' = "done"
                 /\ UNCHANGED spawnCalls
            ELSE /\ pc' = "spawn"
                 /\ spawnCalls' = spawnCalls + 1
                 /\ UNCHANGED outcome
    /\ UNCHANGED <<otherVars, inputVars, query_content, queryReturned, resourceVars, wpc,
                   wresult, classifyCalls, queryCalls, sessionExitCalls,
                   cleanupCloseCalls, raisedAt, teardownFailed, cancelledAt,
                   timedOut>>

\* line 181 raises: nothing in process_chat_message encloses it
ClassifierRaises ==
    /\ pc = "classify"
    /\ \E msg \in ExcMessages : outcome' = Raised(msg)
    /\ raisedAt' = "classify"
    /\ pc' = "done"
    /\ UNCHANGED <<otherVars, inputVars, answerVars, resourceVars, counterVars, wpc,
                   wresult, teardownFailed, cancelledAt, timedOut>>

\* the await at position p raises an Exception
StageRaises(p) ==
    /\ pc = p
    /\ \E msg \in ExcMessages : outcome' = Raised(msg)
    /\ raisedAt' = p
    /\ pc' = RaiseAt(p)
    /\ UNCHANGED <<otherVars, inputVars, answerVars, resourceVars, counterVars, wpc,
                   wresult, teardownFailed, cancelledAt, timedOut>>

\* line 210: stdio_client spawns the tool process and yields (read, write)
SpawnOk ==
    /\ pc = "spawn"
    /\ transport' = "open"
    /\ pc' = "enter_session"
    /\ UNCHANGED <<otherVars, inputVars, answerVars, session, db_agent_session,
                   initialized, counterVars, wpc, wresult, outcome, raisedAt,
                   teardownFailed, cancelledAt, timedOut>>

\* line 210 raises (uvx missing, spawn refused)
SpawnFails ==
    /\ pc = "spawn"
    /\ StageRaises("spawn")

\* lines 211-212: the ClientSession block is entered, db_agent.session set,
\* and session.initialize() awaited
SessionEnter ==
    /\ pc = "enter_session"
    /\ session' = "open"
    /\ db_agent_session' = TRUE
    /\ pc' = "initialize"
    /\ UNCHANGED <<otherVars, inputVars, answerVars, transport, initialized, counterVars,
                   wpc, wresult, outcome, raisedAt, teardownFailed, cancelledAt,
                   timedOut>>

\* line 213 returns; create_database_agent is awaited
InitializeOk ==
    /\ pc = "initialize"
    /\ initialized' = TRUE
    /\ pc' = "create_agent"
    /\ UNCHANGED <<otherVars, inputVars, answerVars, transport, session, db_agent_session,
                   counterVars, wpc, wresult, outcome, raisedAt, teardownFailed,
                   cancelledAt, timedOut>>

\* line 213 raises (handshake failure)
InitializeFails ==
    /\ pc = "initialize"
    /\ StageRaises("initialize")

\* lines 214-226: create_database_agent returns; the prompt is built and
\* database_agent.arun awaited
CreateAgentOk ==
    /\ pc = "create_agent"
    /\ pc' = "query"
    /\ queryCalls' = queryCalls + 1
    /\ UNCHANGED <<otherVars, inputVars, answerVars, resourceVars, classifyCalls,
                   spawnCalls, sessionExitCalls, cleanupCloseCalls, wpc, wresult,
                   outcome, raisedAt, teardownFailed, cancelledAt, timedOut>>

\* lines 128-151: MCPTools.initialize or the model constructor raises; the
\* except clause of create_database_agent logs and re-raises
CreateAgentFails ==
    /\ pc = "create_agent"
    /\ StageRaises("create_agent")

\* lines 226-227: the query agent answers and the result dict is returned
\* from inside both `async with` blocks
QueryReturns ==
    /\ pc = "query"
    /\ \E text \in QueryTexts :
         /\ query_content' = text
         /\ outcome' = QueryResult(text)
    /\ queryReturned' = TRUE
    /\ pc' = "exit_session"
    /\ UNCHANGED <<otherVars, inputVars, classifier_content, classifierReturned,
                   response_content, resourceVars, counterVars, wpc, wresult,
                   raisedAt, teardownFailed, cancelledAt, timedOut>>

\* line 226 raises (model or tool round trip)
QueryRaises ==
    /\ pc = "query"
    /\ StageRaises("query")

\* the exit of `async with ClientSession(...)`: the session is closed; the
\* exit may itself raise after closing, which replaces the outcome in flight
ExitSession ==
    /\ pc = "exit_session"
    /\ session' = "closed"
    /\ sessionExitCalls' = sessionExitCalls + 1
    /\ \/ UNCHANGED <<outcome, teardownFailed>>
       \/ /\ \E msg \in ExcMessages : outcome' = Raised(msg)
          /\ teardownFailed' = TRUE
    /\ pc' = "exit_transport"
    /\ UNCHANGED <<otherVars, inputVars, answerVars, transport, db_agent_session,
                   initialized, classifyCalls, spawnCalls, queryCalls,
                   cleanupCloseCalls, wpc, wresult, raisedAt, cancelledAt,
                   timedOut>>

\* the exit of `async with stdio_client(...)`: the transport is closed and
\* the tool process ended; the exit may itself raise
ExitTransport ==
    /\ pc = "exit_transport"
    /\ transport' = "closed"
    /\ \/ UNCHANGED <<outcome, teardownFailed>>
       \/ /\ \E msg \in ExcMessages : outcome' = Raised(msg)
          /\ teardownFailed' = TRUE
    /\ pc' = "except"
    /\ UNCHANGED <<otherVars, inputVars, answerVars, session, db_agent_session,
                   initialized, counterVars, wpc, wresult, raisedAt,
                   cancelledAt, timedOut>>

\* lines 229-231: an Exception in flight becomes an error result; a return
\* value or a CancelledError passes through to the finally clause
Except ==
    /\ pc = "except"
    /\ outcome' = HandleException(outcome)
    /\ pc' = "cleanup"
    /\ UNCHANGED <<otherVars, inputVars, answerVars, resourceVars, counterVars, wpc,
                   wresult, raisedAt, teardownFailed, cancelledAt, timedOut>>

\* the guard of DatabaseAgent.cleanup, line 99
CleanupCloses ==
    db_agent_session /\ session_has_close

\* lines 96-103 and 233: DatabaseAgent.cleanup calls session.close() when
\* the session object has one; an Exception from it is logged and dropped
Cleanup ==
    /\ pc = "cleanup"
    /\ IF CleanupCloses
       THEN /\ cleanupCloseCalls' = cleanupCloseCalls + 1
            /\ \/ UNCHANGED teardownFailed
               \/ teardownFailed' = TRUE
       ELSE UNCHANGED <<cleanupCloseCalls, teardownFailed>>
    /\ pc' = "final_sleep"
    /\ UNCHANGED <<otherVars, inputVars, answerVars, resourceVars, classifyCalls,
                   spawnCalls, queryCalls, sessionExitCalls, wpc, wresult,
                   outcome, raisedAt, cancelledAt, timedOut>>

\* line 234: asyncio.sleep(0.2), then the outcome leaves the function
FinalSleep ==
    /\ pc = "final_sleep"
    /\ pc' = "done"
    /\ UNCHANGED <<otherVars, inputVars, answerVars, resourceVars, counterVars, wpc,
                   wresult, outcome, raisedAt, teardownFailed, cancelledAt,
                   timedOut>>

\* the awaits of process_chat_message and of DatabaseAgent.cleanup
AwaitPoints ==
    {"classify", "spawn", "enter_session", "initialize", "create_agent",
     "query", "cleanup", "final_sleep"}

\* mutant of CancelAt: a cancellation leaves the function at once, without
\* running the exits of the `async with` blocks
CancelAtNoUnwind(p) ==
    "done"

\* where control goes when CancelledError is raised at the await at p:
\* it is no Exception, so neither cleanup's nor the function's except
\* clause stops it; inside the try it unwinds like any raise
CancelAt(p) ==
    CASE p \in {"classify", "cleanup", "final_sleep"} -> "done"
      [] OTHER -> RaiseAt(p)

\* CancelledError is delivered once, at the await the task is suspended in.
\* At "cleanup" the guard and the call of session.close() have already run.
DeliverCancel ==
    /\ cancelledAt = "none"
    /\ pc \in AwaitPoints
    /\ cancelledAt' = pc
    /\ outcome' = Cancelled
    /\ pc' = CancelAt(pc)
    /\ IF pc = "cleanup" /\ CleanupCloses
       THEN cleanupCloseCalls' = cleanupCloseCalls + 1
       ELSE UNCHANGED cleanupCloseCalls
    /\ UNCHANGED <<otherVars, inputVars, answerVars, resourceVars, classifyCalls,
                   spawnCalls, queryCalls, sessionExitCalls, wpc, wresult,
                   raisedAt, teardownFailed>>

\* the task running call_function is cancelled by its owner
Cancel ==
    /\ entry = "core"
    /\ DeliverCancel
    /\ UNCHANGED timedOut

(***************************************************************************)
(* Callers: call_function (test.py) and process_user_message_async (app.py) *)
(***************************************************************************)
\* test.py lines 4-5: process_chat_message is awaited directly
CallFunction ==
    /\ entry = "core"
    /\ wpc = "start"
    /\ wpc' = "waiting"
    /\ pc' = "start"
    /\ UNCHANGED <<otherVars, inputVars, answerVars, resourceVars, counterVars, wresult,
                   outcome, raisedAt, teardownFailed, cancelledAt, timedOut>>

\* test.py lines 5-7: the result is printed and returned; an exception or a
\* cancellation propagates unchanged
CallFunctionEnds ==
    /\ entry = "core"
    /\ wpc = "waiting"
    /\ pc = "done"
    /\ wresult' = outcome
    /\ wpc' = "done"
    /\ UNCHANGED <<otherVars, inputVars, answerVars, resourceVars, counterVars, pc,
                   outcome, raisedAt, teardownFailed, cancelledAt, timedOut>>

\* app.py line 171
EmptyMessageResult ==
    Return(EnterValidMessage, "error")

\* mutant of TimeoutResult: the status key is left out
TimeoutResultNoStatus ==
    Return(TimeoutMessage, "")

\* app.py lines 180-183
TimeoutResult ==
    Return(TimeoutMessage, "error")

\* app.py lines 185-188
ProcessingErrorResult(msg) ==
    Return(ProcessingErrorPrefix \o msg \o ProcessingErrorSuffix, "error")

\* app.py lines 170-177: the empty-message check, then wait_for around
\* process_chat_message
ProcessUserMessageAsync ==
    /\ entry = "ui"
    /\ wpc = "start"
    /\ IF Strip(user_message) = <<>>
       THEN /\ wresult' = EmptyMessageResult
            /\ wpc' = "done"
            /\ UNCHANGED pc
       ELSE /\ wpc' = "waiting"
            /\ pc' = "start"
            /\ UNCHANGED wresult
    /\ UNCHANGED <<otherVars, inputVars, answerVars, resourceVars, counterVars, outcome,
                   raisedAt, teardownFailed, cancelledAt, timedOut>>

\* app.py line 176: the 30 s deadline passes; wait_for cancels the inner
\* coroutine and waits for it to finish
Timeout ==
    /\ entry = "ui"
    /\ wpc = "waiting"
    /\ DeliverCancel
    /\ timedOut' = TRUE

\* app.py lines 173-188: what the wrapper returns for the inner outcome
WrapperResult(o) ==
    CASE o.kind = "return" -> o
      [] o.kind = "cancelled" -> TimeoutResult
      [] o.kind = "exception" -> ProcessingErrorResult(o.response)

\* app.py lines 178-188: wait_for finishes and the wrapper returns
ProcessUserMessageAsyncEnds ==
    /\ entry = "ui"
    /\ wpc = "waiting"
    /\ pc = "done"
    /\ wresult' = WrapperResult(outcome)
    /\ wpc' = "done"
    /\ UNCHANGED <<otherVars, inputVars, answerVars, resourceVars, counterVars, pc,
                   outcome, raisedAt, teardownFailed, cancelledAt, timedOut>>

Next ==
    \/ CallFunction
    \/ ProcessUserMessageAsync
    \/ CheckEnvironment
    \/ ClassifierReturns
    \/ ClassifierRaises
    \/ SpawnOk
    \/ SpawnFails
    \/ SessionEnter
    \/ InitializeOk
    \/ InitializeFails
    \/ CreateAgentOk
    \/ CreateAgentFails
    \/ QueryReturns
    \/ QueryRaises
    \/ ExitSession
    \/ ExitTransport
    \/ Except
    \/ Cleanup
    \/ FinalSleep
    \/ Cancel
    \/ Timeout
    \/ CallFunctionEnds
    \/ ProcessUserMessageAsyncEnds

Spec ==
    Init /\ [][Next]_vars

(***************************************************************************)
(* What one invocation can end with, as a set: the outcomes of             *)
(* process_chat_message and the results of process_user_message_async for  *)
(* given classifier texts, query texts and exception texts.                *)
(***************************************************************************)
\* database_agent.py lines 161-234
ChatOutcomes(missing, ctexts, qtexts, excs) ==
    IF missing # <<>>
    THEN {MissingVariablesResult(missing)}
    ELSE {Raised(m) : m \in excs}
         \cup {Cancelled}
         \cup {Return(ClarificationResponse(Strip(t)), "clarification") :
                 t \in {c \in ctexts : NeedsClarification(Strip(c))}}
         \cup (IF \E c \in ctexts : ~NeedsClarification(Strip(c))
               THEN {QueryResult(q) : q \in qtexts}
                    \cup {HandleException(Raised(m)) : m \in excs}
               ELSE {})

\* app.py lines 168-188
WrapperResults(msg, missing, ctexts, qtexts, excs) ==
    IF Strip(msg) = <<>>
    THEN {EmptyMessageResult}
    ELSE {WrapperResult(o) : o \in ChatOutcomes(missing, ctexts, qtexts, excs)}

\* the step-by-step invocation ends only with outcomes of these sets
InvocationWithinOutcomes ==
    /\ pc = "done" =>
         outcome \in ChatOutcomes(missing_variables, ModelTexts, QueryTexts,
                                  ExcMessages)
    /\ (wpc = "done" /\ entry = "ui") =>
         wresult \in WrapperResults(user_message, missing_variables,
                                    ModelTexts, QueryTexts, ExcMessages)

(***************************************************************************)
(* The Streamlit script main() of app.py.  One script run is one action;   *)
(* the runs of a browser session are serial.  The invocation a run makes   *)
(* is taken as a whole: its result is any result the wrapper can return.   *)
(***************************************************************************)
\* most turns a conversation holds before Clear Conversation
MaxTurns == 2
\* most increments of input_key
MaxInputKey == 3

\* app.py line 126
NoConsultantsFoundMarker ==
    <<"N","o"," ","c","o","n","s","u","l","t","a","n","t","s"," ","f","o","u",
      "n","d">>

\* texts st.chat_input hands to the script: non-empty, possibly blank
UiInputs ==
    {<<"a">>, <<" ">>}

\* classifier answers in the UI runs
UiClassifierTexts ==
    {<<>>, <<"?">>, <<"a">>}

\* query agent answers in the UI runs
UiQueryTexts ==
    {<<"a">>, <<"a", "?">>, FoundConsultants \o <<" ","[","a","]">>,
     NoConsultantsFound}

\* exception texts in the UI runs
UiExcMessages ==
    {<<"e">>, <<"e", "?">>}

\* process environments in the UI runs: complete, and DB_HOST unset
UiEnvironments ==
    {[v \in {"DB_HOST", "DB_USER", "DB_PASSWORD", "DB_NAME"} |-> "v"],
     [v \in {"DB_USER", "DB_PASSWORD", "DB_NAME"} |-> "v"]}

\* {"user": user, "assistant": assistant}
Turn(user, assistant) ==
    [user |-> user, assistant |-> assistant]

\* app.py lines 51-142: the branch of format_assistant_response that
\* renders a response text
RenderBranch(text) ==
    IF Contains(text, FoundConsultants) THEN "found"
    ELSE IF Contains(text, NoConsultantsFoundMarker) THEN "no_match"
    ELSE IF HasQuestionMark(text) THEN "clarification"
    ELSE "regular"

\* mutant of AcceptsInput: the processing flag is not tested
AcceptsInputAlways(user_input) ==
    user_input # None

\* app.py line 246: `user_input and not st.session_state.processing`
AcceptsInput(user_input) ==
    user_input # None /\ user_input # <<>> /\ ~processing

\* mutant of HasPending: the processing block is never entered, so every
\* script run goes on to the Clear Conversation button
HasPendingNever ==
    FALSE

\* app.py lines 254-256: a message is being processed
HasPending ==
    /\ processing
    /\ conversation_history # <<>>
    /\ conversation_history[Len(conversation_history)].assistant = None

\* mutant of HistoryArgument: the whole history is passed
HistoryArgumentWhole(h) ==
    h

\* app.py line 262: conversation_history[:-1]
HistoryArgument(h) ==
    SubSeq(h, 1, Len(h) - 1)

\* mutant of ResolveLast for C14: the response is written to a copy
ResolveLastLost(h, response) ==
    h

\* mutant of ResolveLast for C20: the first turn is written instead
ResolveFirst(h, response) ==
    [h EXCEPT ![1].assistant = response]

\* app.py lines 266 and 272: conversation_history[-1]["assistant"] = response
ResolveLast(h, response) ==
    [h EXCEPT ![Len(h)].assistant = response]

InitUI ==
    /\ environ \in UiEnvironments
    /\ session_has_close = FALSE
    /\ entry = "ui"
    /\ user_message = <<>>
    /\ wpc = "start"
    /\ pc = "idle"
    /\ classifier_content = <<>>
    /\ classifierReturned = FALSE
    /\ response_content = <<>>
    /\ query_content = <<>>
    /\ queryReturned = FALSE
    /\ outcome = NoOutcome
    /\ wresult = NoOutcome
    /\ transport = "none"
    /\ session = "none"
    /\ db_agent_session = FALSE
    /\ initialized = FALSE
    /\ classifyCalls = 0
    /\ spawnCalls = 0
    /\ queryCalls = 0
    /\ sessionExitCalls = 0
    /\ cleanupCloseCalls = 0
    /\ raisedAt = "none"
    /\ teardownFailed = FALSE
    /\ cancelledAt = "none"
    /\ timedOut = FALSE
    /\ UiIdle
    /\ LeakIdle
    /\ ConcIdle
    /\ AgentIdle

\* app.py lines 246-251: a script run that gets a message from st.chat_input
\* appends the pending turn, sets processing and reruns
MainSubmit ==
    /\ Len(conversation_history) < MaxTurns
    /\ input_key < MaxInputKey
    /\ \E user_input \in UiInputs :
         /\ AcceptsInput(user_input)
         /\ conversation_history' =
              Append(conversation_history, Turn(user_input, None))
    /\ turn_status' = Append(turn_status, "pending")
    /\ input_key' = input_key + 1
    /\ processing' = TRUE
    /\ UNCHANGED <<coreVars, leakVars, concVars, agentVars, history_arg>>

\* app.py lines 254-268: a script run that finds a pending last turn calls
\* process_user_message_async on the turns before it, stores the response,
\* clears processing and reruns
MainProcess ==
    /\ \E user_input \in UiInputs \cup {None} : ~AcceptsInput(user_input)
    /\ HasPending
    /\ history_arg' = HistoryArgument(conversation_history)
    /\ \E result \in WrapperResults(
                       conversation_history[Len(conversation_history)].user,
                       missing_variables, UiClassifierTexts, UiQueryTexts,
                       UiExcMessages) :
         /\ conversation_history' =
              ResolveLast(conversation_history, result.response)
         /\ turn_status' =
              [turn_status EXCEPT ![Len(turn_status)] = result.status]
    /\ processing' = FALSE
    /\ UNCHANGED <<coreVars, leakVars, concVars, agentVars, input_key>>

\* app.py lines 259-263 and 270-275: run_async_task raises an Exception;
\* the except clause stores its own error text, clears processing and reruns
MainProcessRaises ==
    /\ \E user_input \in UiInputs \cup {None} : ~AcceptsInput(user_input)
    /\ HasPending
    /\ history_arg' = HistoryArgument(conversation_history)
    /\ \E msg \in UiExcMessages :
         conversation_history' =
           ResolveLast(conversation_history, ProcessingErrorPrefix \o msg)
    /\ turn_status' = [turn_status EXCEPT ![Len(turn_status)] = "none"]
    /\ processing' = FALSE
    /\ UNCHANGED <<coreVars, leakVars, concVars, agentVars, input_key>>

\* app.py lines 282-286: a script run that reaches the Clear Conversation
\* button with the button clicked empties the history and reruns
MainClear ==
    /\ \E user_input \in UiInputs \cup {None} : ~AcceptsInput(user_input)
    /\ ~HasPending
    /\ conversation_history # <<>>
    /\ input_key < MaxInputKey
    /\ conversation_history' = <<>>
    /\ turn_status' = <<>>
    /\ input_key' = input_key + 1
    /\ UNCHANGED <<coreVars, leakVars, concVars, agentVars, processing, history_arg>>

NextUI ==
    \/ MainSubmit
    \/ MainProcess
    \/ MainProcessRaises
    \/ MainClear

\* st.rerun() at line 251 starts the script run that processes the pending
\* turn, so that run is not postponed forever
SpecUI ==
    InitUI /\ [][NextUI]_vars /\ WF_vars(MainProcess)

(***************************************************************************)
(* One invocation as a function of the environment and of a script: the    *)
(* answers and failures the model, the transport and the tool give.        *)
(***************************************************************************)
\* the stages inside the try block that can raise
TryStages ==
    {"spawn", "initialize", "create_agent", "query"}

\* the text of a credential value
ValueText(value) ==
    CASE value = "" -> <<>>
      [] value = "v" -> <<"v">>
      [] value = "w" -> <<"w">>

\* `not os.getenv(var)` in environment env
NotSetIn(env, v) ==
    ~(v \in DOMAIN env /\ env[v] # "")

\* missing_variables in environment env
MissingVariablesIn(env) ==
    SelectSeq(required_variables, LAMBDA v : NotSetIn(env, v))

\* database_agent.py lines 195-204: the credential values on the command
\* line of the tool process
ServerArguments(env) ==
    ValueText(env["DB_HOST"]) \o ValueText(env["DB_USER"])
    \o ValueText(env["DB_PASSWORD"]) \o ValueText(env["DB_NAME"])

\* str(e) of a failure: a fixed text, or one that quotes the command line
\* the tool process was started with
ExceptionText(env, s) ==
    IF s.echo THEN <<"e", " ">> \o ServerArguments(env) ELSE <<"e">>

\* database_agent.py lines 161-234 under script s
ScriptedOutcome(env, s) ==
    IF MissingVariablesIn(env) # <<>>
    THEN MissingVariablesResult(MissingVariablesIn(env))
    ELSE IF s.classifier_raises
    THEN Raised(<<"e">>)
    ELSE IF NeedsClarification(Strip(s.classifier))
    THEN Return(ClarificationResponse(Strip(s.classifier)), "clarification")
    ELSE LET body == IF s.failAt \in TryStages
                     THEN Raised(ExceptionText(env, s))
                     ELSE QueryResult(s.query)
             unwound == IF s.exitFails /\ s.failAt # "spawn"
                        THEN Raised(ExceptionText(env, s))
                        ELSE body
         IN  HandleException(unwound)

\* what the caller named by the script gets: call_function gets the outcome
\* itself, process_user_message_async (app.py 168-188) wraps it
ScriptedResult(env, s) ==
    IF s.entry = "core"
    THEN ScriptedOutcome(env, s)
    ELSE IF Strip(s.message) = <<>>
    THEN EmptyMessageResult
    ELSE WrapperResult(ScriptedOutcome(env, s))

\* the script the single invocation has followed, where exitFails says
\* whether an exit of an `async with` block raised
ScriptFollowed(exitFails) ==
    [entry |-> entry, message |-> user_message,
     classifier_raises |-> (raisedAt = "classify"),
     classifier |-> classifier_content,
     failAt |-> IF raisedAt \in TryStages THEN raisedAt ELSE "none",
     exitFails |-> exitFails, echo |-> FALSE, query |-> query_content]

\* an invocation that was not cancelled ends as its script says
InvocationFollowsScript ==
    (pc = "done" /\ cancelledAt = "none")
        => \E f \in (IF teardownFailed THEN BOOLEAN ELSE {FALSE}) :
               outcome = ScriptedOutcome(environ, ScriptFollowed(f))

(***************************************************************************)
(* Two runs that differ only in the values of the DB_* variables.          *)
(***************************************************************************)
\* environments of the compared runs: each variable unset or one of two
\* values
LeakEnvironments ==
    UNION {[S -> {"v", "w"}] :
             S \in SUBSET {"DB_HOST", "DB_USER", "DB_PASSWORD", "DB_NAME"}}

\* the scripts of the compared runs
LeakScripts ==
    [entry : {"core", "ui"},
     message : {<<" ">>, <<"a">>},
     classifier_raises : BOOLEAN,
     classifier : {<<"?">>, <<"a">>},
     failAt : {"none"} \cup TryStages,
     exitFails : BOOLEAN,
     echo : BOOLEAN,
     query : {<<"a">>}]

InitLeak ==
    /\ environ = << >>
    /\ session_has_close = FALSE
    /\ entry = "core"
    /\ user_message = <<>>
    /\ wpc = "start"
    /\ pc = "idle"
    /\ classifier_content = <<>>
    /\ classifierReturned = FALSE
    /\ response_content = <<>>
    /\ query_content = <<>>
    /\ queryReturned = FALSE
    /\ outcome = NoOutcome
    /\ wresult = NoOutcome
    /\ transport = "none"
    /\ session = "none"
    /\ db_agent_session = FALSE
    /\ initialized = FALSE
    /\ classifyCalls = 0
    /\ spawnCalls = 0
    /\ queryCalls = 0
    /\ sessionExitCalls = 0
    /\ cleanupCloseCalls = 0
    /\ raisedAt = "none"
    /\ teardownFailed = FALSE
    /\ cancelledAt = "none"
    /\ timedOut = FALSE
    /\ UiIdle
    /\ ConcIdle
    /\ AgentIdle
    /\ leak_env_a \in LeakEnvironments
    /\ leak_env_b \in {e \in LeakEnvironments :
                         \A v \in {"DB_HOST", "DB_USER", "DB_PASSWORD", "DB_NAME"} :
                             NotSetIn(e, v) <=> NotSetIn(leak_env_a, v)}
    /\ leak_script \in LeakScripts
    /\ leak_result_a = NoOutcome
    /\ leak_result_b = NoOutcome
    /\ leak_pc = "start"

\* the invocation runs in the first environment
LeakFirstRun ==
    /\ leak_pc = "start"
    /\ leak_result_a' = ScriptedResult(leak_env_a, leak_script)
    /\ leak_pc' = "first"
    /\ UNCHANGED <<coreVars, uiVars, concVars, agentVars, leak_env_a, leak_env_b, leak_script,
                   leak_result_b>>

\* the invocation runs in the second environment, with the same script
LeakSecondRun ==
    /\ leak_pc = "first"
    /\ leak_result_b' = ScriptedResult(leak_env_b, leak_script)
    /\ leak_pc' = "done"
    /\ UNCHANGED <<coreVars, uiVars, concVars, agentVars, leak_env_a, leak_env_b, leak_script,
                   leak_result_a>>

NextLeak ==
    \/ LeakFirstRun
    \/ LeakSecondRun

SpecLeak ==
    InitLeak /\ [][NextLeak]_vars

(***************************************************************************)
(* Two invocations of process_chat_message interleaved at their awaits.    *)
(* One that ends before the other starts is the case of two turns.         *)
(***************************************************************************)
Invocations ==
    {1, 2}

\* what the classifier may answer an invocation
ConcClassifierTexts ==
    {<<"?">>, <<"a">>}

\* what the query agent may answer an invocation
ConcQueryTexts ==
    {<<"a">>}

\* the environment the two invocations share
ConcEnvironments ==
    {[v \in {"DB_HOST", "DB_USER", "DB_PASSWORD", "DB_NAME"} |-> "v"],
     [v \in {"DB_USER", "DB_PASSWORD", "DB_NAME"} |-> "v"]}

\* mutant of DbAgentOf: one DatabaseAgent object kept at module level and
\* shared by all invocations
DbAgentShared(i) ==
    1

\* line 207: `db_agent = DatabaseAgent()`, an object of the invocation
DbAgentOf(i) ==
    i

\* the sessions invocation i has opened
SessionsOf(i) ==
    {n \in 1..Len(sessions) : sessions[n].owner = i}

\* a call on a session by invocation i
Use(i, n) ==
    [by |-> i, session |-> n]

InitConc ==
    /\ environ \in ConcEnvironments
    /\ session_has_close \in BOOLEAN
    /\ entry = "core"
    /\ user_message = <<>>
    /\ wpc = "start"
    /\ pc = "idle"
    /\ classifier_content = <<>>
    /\ classifierReturned = FALSE
    /\ response_content = <<>>
    /\ query_content = <<>>
    /\ queryReturned = FALSE
    /\ outcome = NoOutcome
    /\ wresult = NoOutcome
    /\ transport = "none"
    /\ session = "none"
    /\ db_agent_session = FALSE
    /\ initialized = FALSE
    /\ classifyCalls = 0
    /\ spawnCalls = 0
    /\ queryCalls = 0
    /\ sessionExitCalls = 0
    /\ cleanupCloseCalls = 0
    /\ raisedAt = "none"
    /\ teardownFailed = FALSE
    /\ cancelledAt = "none"
    /\ timedOut = FALSE
    /\ UiIdle
    /\ LeakIdle
    /\ AgentIdle
    /\ c_pc = [i \in Invocations |-> "start"]
    /\ c_script = [i \in Invocations |-> [NoScript EXCEPT !.message = <<"a">>]]
    /\ c_outcome = [i \in Invocations |-> NoOutcome]
    /\ c_session = [i \in Invocations |-> 0]
    /\ agent_session = [i \in Invocations |-> 0]
    /\ sessions = <<>>
    /\ c_uses = {}

\* what no step of an invocation writes
ConcFrame ==
    UNCHANGED <<coreVars, uiVars, leakVars, agentVars>>

\* lines 161-164: the credentials are checked
CCheckEnvironment(i) ==
    /\ c_pc[i] = "start"
    /\ IF missing_variables # <<>>
       THEN /\ c_outcome' = [c_outcome EXCEPT ![i] = MissingVariablesResult(missing_variables)]
            /\ c_pc' = [c_pc EXCEPT ![i] = "done"]
       ELSE /\ c_pc' = [c_pc EXCEPT ![i] = "classify"]
            /\ UNCHANGED c_outcome
    /\ UNCHANGED <<c_script, c_session, agent_session, sessions, c_uses>>
    /\ ConcFrame

\* lines 181-186: the classifier answers
CClassifierReturns(i) ==
    /\ c_pc[i] = "classify"
    /\ \E t \in ConcClassifierTexts :
          /\ c_script' = [c_script EXCEPT ![i].classifier = t]
          /\ IF NeedsClarification(Strip(t))
             THEN /\ c_outcome' = [c_outcome EXCEPT ![i] =
                        Return(ClarificationResponse(Strip(t)), "clarification")]
                  /\ c_pc' = [c_pc EXCEPT ![i] = "done"]
             ELSE /\ c_pc' = [c_pc EXCEPT ![i] = "spawn"]
                  /\ UNCHANGED c_outcome
    /\ UNCHANGED <<c_session, agent_session, sessions, c_uses>>
    /\ ConcFrame

\* line 181: the classifier raises, outside any try
CClassifierRaises(i) ==
    /\ c_pc[i] = "classify"
    /\ c_script' = [c_script EXCEPT ![i].classifier_raises = TRUE]
    /\ c_outcome' = [c_outcome EXCEPT ![i] = Raised(<<"e">>)]
    /\ c_pc' = [c_pc EXCEPT ![i] = "done"]
    /\ UNCHANGED <<c_session, agent_session, sessions, c_uses>>
    /\ ConcFrame

\* lines 207-212: the tool process is started and the session entered; the
\* invocation's DatabaseAgent object is given the session
CSpawnOk(i) ==
    /\ c_pc[i] = "spawn"
    /\ sessions' = Append(sessions, [owner |-> i, open |-> TRUE])
    /\ c_session' = [c_session EXCEPT ![i] = Len(sessions) + 1]
    /\ agent_session' = [agent_session EXCEPT ![DbAgentOf(i)] = Len(sessions) + 1]
    /\ c_pc' = [c_pc EXCEPT ![i] = "initialize"]
    /\ UNCHANGED <<c_script, c_outcome, c_uses>>
    /\ ConcFrame

\* lines 210-211, 229-231: starting the tool process raises
CSpawnFails(i) ==
    /\ c_pc[i] = "spawn"
    /\ c_script' = [c_script EXCEPT ![i].failAt = "spawn"]
    /\ c_outcome' = [c_outcome EXCEPT ![i] = HandleException(Raised(<<"e">>))]
    /\ c_pc' = [c_pc EXCEPT ![i] = "cleanup"]
    /\ UNCHANGED <<c_session, agent_session, sessions, c_uses>>
    /\ ConcFrame

\* the stage after p inside the session block
StageAfter(p) ==
    CASE p = "initialize" -> "create_agent"
      [] p = "create_agent" -> "query"
      [] p = "query" -> "exit"

\* lines 214-227: a call on the invocation's session returns; a call on a
\* session that has been closed cannot
CStageOk(i, p) ==
    /\ c_pc[i] = p
    /\ sessions[c_session[i]].open
    /\ c_uses' = c_uses \cup {Use(i, c_session[i])}
    /\ IF p = "query"
       THEN \E q \in ConcQueryTexts :
               /\ c_script' = [c_script EXCEPT ![i].query = q]
               /\ c_outcome' = [c_outcome EXCEPT ![i] = QueryResult(q)]
       ELSE UNCHANGED <<c_script, c_outcome>>
    /\ c_pc' = [c_pc EXCEPT ![i] = StageAfter(p)]
    /\ UNCHANGED <<c_session, agent_session, sessions>>
    /\ ConcFrame

\* lines 214-227: a call on the invocation's session raises: on an open
\* session by the tool's choice, which is one of the answers given to the
\* invocation; on a session that something has closed, always
CStageFails(i, p) ==
    /\ c_pc[i] = p
    /\ c_uses' = c_uses \cup {Use(i, c_session[i])}
    /\ c_script' = IF sessions[c_session[i]].open
                   THEN [c_script EXCEPT ![i].failAt = p]
                   ELSE c_script
    /\ c_outcome' = [c_outcome EXCEPT ![i] = Raised(<<"e">>)]
    /\ c_pc' = [c_pc EXCEPT ![i] = "exit"]
    /\ UNCHANGED <<c_session, agent_session, sessions>>
    /\ ConcFrame

\* line 214: session.initialize()
CInitializeOk(i) ==
    /\ c_pc[i] = "initialize"
    /\ CStageOk(i, "initialize")

CInitializeFails(i) ==
    /\ c_pc[i] = "initialize"
    /\ CStageFails(i, "initialize")

\* line 217: create_database_agent(session)
CCreateAgentOk(i) ==
    /\ c_pc[i] = "create_agent"
    /\ CStageOk(i, "create_agent")

CCreateAgentFails(i) ==
    /\ c_pc[i] = "create_agent"
    /\ CStageFails(i, "create_agent")

\* lines 226-227: database_agent.arun(db_prompt)
CQueryReturns(i) ==
    /\ c_pc[i] = "query"
    /\ CStageOk(i, "query")

CQueryRaises(i) ==
    /\ c_pc[i] = "query"
    /\ CStageFails(i, "query")

\* lines 210-211, 229-231: the two `async with` blocks exit, closing the
\* invocation's own session; an exit may raise; an Exception in flight
\* becomes the error result
CExit(i) ==
    /\ c_pc[i] = "exit"
    /\ sessions' = [sessions EXCEPT ![c_session[i]].open = FALSE]
    /\ c_uses' = c_uses \cup {Use(i, c_session[i])}
    /\ \/ /\ c_outcome' = [c_outcome EXCEPT ![i] = HandleException(c_outcome[i])]
          /\ UNCHANGED c_script
       \/ /\ c_outcome' = [c_outcome EXCEPT ![i] = HandleException(Raised(<<"e">>))]
          /\ c_script' = [c_script EXCEPT ![i].exitFails = TRUE]
    /\ c_pc' = [c_pc EXCEPT ![i] = "cleanup"]
    /\ UNCHANGED <<c_session, agent_session>>
    /\ ConcFrame

\* lines 96-103, 233: cleanup closes the session its DatabaseAgent holds
CCleanup(i) ==
    /\ c_pc[i] = "cleanup"
    /\ IF agent_session[DbAgentOf(i)] # 0 /\ session_has_close
       THEN /\ sessions' = [sessions EXCEPT ![agent_session[DbAgentOf(i)]].open = FALSE]
            /\ c_uses' = c_uses \cup {Use(i, agent_session[DbAgentOf(i)])}
       ELSE UNCHANGED <<sessions, c_uses>>
    /\ c_pc' = [c_pc EXCEPT ![i] = "final_sleep"]
    /\ UNCHANGED <<c_script, c_outcome, c_session, agent_session>>
    /\ ConcFrame

\* line 234: asyncio.sleep(0.2), then the outcome leaves the function
CFinalSleep(i) ==
    /\ c_pc[i] = "final_sleep"
    /\ c_pc' = [c_pc EXCEPT ![i] = "done"]
    /\ UNCHANGED <<c_script, c_outcome, c_session, agent_session, sessions, c_uses>>
    /\ ConcFrame

NextConc ==
    \E i \in Invocations :
        \/ CCheckEnvironment(i)
        \/ CClassifierReturns(i)
        \/ CClassifierRaises(i)
        \/ CSpawnOk(i)
        \/ CSpawnFails(i)
        \/ CInitializeOk(i)
        \/ CInitializeFails(i)
        \/ CCreateAgentOk(i)
        \/ CCreateAgentFails(i)
        \/ CQueryReturns(i)
        \/ CQueryRaises(i)
        \/ CExit(i)
        \/ CCleanup(i)
        \/ CFinalSleep(i)

SpecConc ==
    InitConc /\ [][NextConc]_vars

(***************************************************************************)
(* The standalone flow: agent.py, main and                                 *)
(* analyze_symptoms_and_find_consultants.                                  *)
(***************************************************************************)
\* agent.py line 169
MissingRequiredPrefix ==
    <<"M","i","s","s","i","n","g"," ","r","e","q","u","i","r","e","d"," ",
      "e","n","v","i","r","o","n","m","e","n","t"," ","v","a","r","i","a",
      "b","l","e","s",":"," ">>

\* agent.py line 227
ErrorConnectingPrefix ==
    <<"E","r","r","o","r"," ","c","o","n","n","e","c","t","i","n","g"," ",
      "t","o"," ","d","a","t","a","b","a","s","e"," ","o","r"," ","r","u",
      "n","n","i","n","g"," ","q","u","e","r","y",":"," ">>

\* what the classifier may answer the standalone flow
AgentClassifierTexts ==
    {<<>>, <<" ">>, <<"?">>, <<"a">>, <<"a", "?">>, <<" ", "a">>}

\* what the query agent may answer the standalone flow
AgentQueryTexts ==
    {<<>>, <<"a">>}

\* the classes of the exceptions the model and the tool may raise
AgentExceptionClasses ==
    {"Exception", "ValueError", "RuntimeError"}

\* an exception of class cls with str(e) = msg
AgentRaised(cls, msg) ==
    [kind |-> cls, response |-> msg, status |-> ""]

\* the RunResponse returned at agent.py line 223
AgentReturn(content) ==
    [kind |-> "return", response |-> content, status |-> ""]

\* mutant of AgentHandleException: the exception leaves as it came
AgentHandleExceptionAsIs(o) ==
    o

\* agent.py lines 225-227: `except Exception as e: raise RuntimeError(...)`
AgentHandleException(o) ==
    IF o.kind \in AgentExceptionClasses
    THEN AgentRaised("RuntimeError", ErrorConnectingPrefix \o o.response)
    ELSE o

\* mutant of AfterClassifier: the clarification test of
\* process_chat_message
AfterClassifierAsChat(content) ==
    IF NeedsClarification(content) THEN "returned" ELSE "spawn"

\* agent.py lines 185-206: after the classifier's answer the flow goes on
\* to the tool process whatever the answer is
AfterClassifier(content) ==
    "spawn"

\* agent.py lines 256-271: what main returns for the way
\* analyze_symptoms_and_find_consultants ended
ExitCode(o) ==
    CASE o.kind = "return" -> 0
      [] o.kind = "ValueError" -> 1
      [] o.kind = "RuntimeError" -> 1
      [] o.kind = "KeyboardInterrupt" -> 0
      [] OTHER -> 1

InitAgent ==
    /\ environ \in Environments
    /\ session_has_close \in BOOLEAN
    /\ entry = "core"
    /\ user_message = <<>>
    /\ wpc = "start"
    /\ pc = "idle"
    /\ classifier_content = <<>>
    /\ classifierReturned = FALSE
    /\ response_content = <<>>
    /\ query_content = <<>>
    /\ queryReturned = FALSE
    /\ outcome = NoOutcome
    /\ wresult = NoOutcome
    /\ transport = "none"
    /\ session = "none"
    /\ db_agent_session = FALSE
    /\ initialized = FALSE
    /\ classifyCalls = 0
    /\ spawnCalls = 0
    /\ queryCalls = 0
    /\ sessionExitCalls = 0
    /\ cleanupCloseCalls = 0
    /\ raisedAt = "none"
    /\ teardownFailed = FALSE
    /\ cancelledAt = "none"
    /\ timedOut = FALSE
    /\ UiIdle
    /\ LeakIdle
    /\ ConcIdle
    /\ a_pc = "start"
    /\ specialties = <<>>
    /\ a_classifierReturned = FALSE
    /\ a_outcome = NoOutcome
    /\ a_transport = "none"
    /\ a_session = "none"
    /\ a_failedAt = "none"
    /\ a_classifyCalls = 0
    /\ a_spawnCalls = 0
    /\ a_queryCalls = 0
    /\ a_cleanupCalls = 0
    /\ exit_code = -1

\* what no step of the standalone flow writes
AgentFrame ==
    UNCHANGED <<coreVars, uiVars, leakVars, concVars>>

\* agent.py lines 166-184: the variable check, then the classifier is
\* created and its arun awaited
AgentCheckEnvironment ==
    /\ a_pc = "start"
    /\ IF missing_variables # <<>>
       THEN /\ a_outcome' = AgentRaised("ValueError",
                               MissingRequiredPrefix \o JoinNames(missing_variables))
            /\ a_pc' = "returned"
            /\ UNCHANGED a_classifyCalls
       ELSE /\ a_pc' = "classify"
            /\ a_classifyCalls' = a_classifyCalls + 1
            /\ UNCHANGED a_outcome
    /\ UNCHANGED <<specialties, a_classifierReturned, a_transport, a_session,
                   a_failedAt, a_spawnCalls, a_queryCalls, a_cleanupCalls,
                   exit_code>>
    /\ AgentFrame

\* agent.py lines 184-206: the classifier answers, the server parameters
\* are built and stdio_client entered
AgentClassifierReturns ==
    /\ a_pc = "classify"
    /\ \E text \in AgentClassifierTexts :
         /\ specialties' = Strip(text)
         /\ a_pc' = AfterClassifier(Strip(text))
         /\ a_spawnCalls' = IF AfterClassifier(Strip(text)) = "spawn"
                            THEN a_spawnCalls + 1
                            ELSE a_spawnCalls
         /\ a_outcome' = IF AfterClassifier(Strip(text)) = "spawn"
                         THEN a_outcome
                         ELSE AgentReturn(Strip(text))
    /\ a_classifierReturned' = TRUE
    /\ UNCHANGED <<a_transport, a_session, a_failedAt, a_classifyCalls,
                   a_queryCalls, a_cleanupCalls, exit_code>>
    /\ AgentFrame

\* agent.py line 184 raises: nothing in the function encloses it
AgentClassifierRaises ==
    /\ a_pc = "classify"
    /\ \E cls \in AgentExceptionClasses : a_outcome' = AgentRaised(cls, <<"e">>)
    /\ a_failedAt' = "classify"
    /\ a_pc' = "returned"
    /\ UNCHANGED <<specialties, a_classifierReturned, a_transport, a_session,
                   a_classifyCalls, a_spawnCalls, a_queryCalls, a_cleanupCalls,
                   exit_code>>
    /\ AgentFrame

\* an await at position p inside the try block raises an Exception
AgentStageRaises(p) ==
    /\ a_pc = p
    /\ \E cls \in AgentExceptionClasses : a_outcome' = AgentRaised(cls, <<"e">>)
    /\ a_failedAt' = p
    /\ a_pc' = IF p = "spawn" THEN "except" ELSE "exit"
    /\ UNCHANGED <<specialties, a_classifierReturned, a_transport, a_session,
                   a_classifyCalls, a_spawnCalls, a_queryCalls, a_cleanupCalls,
                   exit_code>>
    /\ AgentFrame

\* agent.py lines 206-209: both `async with` blocks are entered and
\* session.initialize() awaited
AgentSpawnOk ==
    /\ a_pc = "spawn"
    /\ a_transport' = "open"
    /\ a_session' = "open"
    /\ a_pc' = "initialize"
    /\ UNCHANGED <<specialties, a_classifierReturned, a_outcome, a_failedAt,
                   a_classifyCalls, a_spawnCalls, a_queryCalls, a_cleanupCalls,
                   exit_code>>
    /\ AgentFrame

AgentSpawnFails ==
    /\ a_pc = "spawn"
    /\ AgentStageRaises("spawn")

\* agent.py lines 209-211: the handshake returns
AgentInitializeOk ==
    /\ a_pc = "initialize"
    /\ a_pc' = "create_agent"
    /\ UNCHANGED <<specialties, a_classifierReturned, a_outcome, a_transport,
                   a_session, a_failedAt, a_classifyCalls, a_spawnCalls,
                   a_queryCalls, a_cleanupCalls, exit_code>>
    /\ AgentFrame

AgentInitializeFails ==
    /\ a_pc = "initialize"
    /\ AgentStageRaises("initialize")

\* agent.py lines 211-222: the query agent is bound and its arun awaited
AgentCreateAgentOk ==
    /\ a_pc = "create_agent"
    /\ a_pc' = "query"
    /\ a_queryCalls' = a_queryCalls + 1
    /\ UNCHANGED <<specialties, a_classifierReturned, a_outcome, a_transport,
                   a_session, a_failedAt, a_classifyCalls, a_spawnCalls,
                   a_cleanupCalls, exit_code>>
    /\ AgentFrame

AgentCreateAgentFails ==
    /\ a_pc = "create_agent"
    /\ AgentStageRaises("create_agent")

\* agent.py lines 222-223: the query agent answers
AgentQueryReturns ==
    /\ a_pc = "query"
    /\ \E text \in AgentQueryTexts : a_outcome' = AgentReturn(text)
    /\ a_pc' = "exit"
    /\ UNCHANGED <<specialties, a_classifierReturned, a_transport, a_session,
                   a_failedAt, a_classifyCalls, a_spawnCalls, a_queryCalls,
                   a_cleanupCalls, exit_code>>
    /\ AgentFrame

AgentQueryRaises ==
    /\ a_pc = "query"
    /\ AgentStageRaises("query")

\* agent.py lines 206-207: the two `async with` blocks exit, closing session
\* and transport; an exit may raise, which replaces the outcome in flight
AgentExit ==
    /\ a_pc = "exit"
    /\ a_session' = "closed"
    /\ a_transport' = "closed"
    /\ \/ UNCHANGED <<a_outcome, a_failedAt>>
       \/ /\ \E cls \in AgentExceptionClasses :
                a_outcome' = AgentRaised(cls, <<"e">>)
          /\ a_failedAt' = IF a_failedAt = "none" THEN "exit" ELSE a_failedAt
    /\ a_pc' = "except"
    /\ UNCHANGED <<specialties, a_classifierReturned, a_classifyCalls,
                   a_spawnCalls, a_queryCalls, a_cleanupCalls, exit_code>>
    /\ AgentFrame

\* agent.py lines 225-227: the except clause
AgentExcept ==
    /\ a_pc = "except"
    /\ a_outcome' = AgentHandleException(a_outcome)
    /\ a_pc' = "cleanup"
    /\ UNCHANGED <<specialties, a_classifierReturned, a_transport, a_session,
                   a_failedAt, a_classifyCalls, a_spawnCalls, a_queryCalls,
                   a_cleanupCalls, exit_code>>
    /\ AgentFrame

\* agent.py lines 100-107 and 228-230: cleanup, then the sleep; the outcome
\* leaves the function. cleanup's session.close(), made when the session
\* object has a close, meets a session the block exit has already closed,
\* and its Exceptions are logged and dropped
AgentCleanup ==
    /\ a_pc = "cleanup"
    /\ a_cleanupCalls' = a_cleanupCalls + 1
    /\ a_pc' = "returned"
    /\ UNCHANGED <<specialties, a_classifierReturned, a_outcome, a_transport,
                   a_session, a_failedAt, a_classifyCalls, a_spawnCalls,
                   a_queryCalls, exit_code>>
    /\ AgentFrame

\* agent.py lines 246-271: main returns its exit code
AgentMain ==
    /\ a_pc = "returned"
    /\ exit_code' = ExitCode(a_outcome)
    /\ a_pc' = "done"
    /\ UNCHANGED <<specialties, a_classifierReturned, a_outcome, a_transport,
                   a_session, a_failedAt, a_classifyCalls, a_spawnCalls,
                   a_queryCalls, a_cleanupCalls>>
    /\ AgentFrame

NextAgent ==
    \/ AgentCheckEnvironment
    \/ AgentClassifierReturns
    \/ AgentClassifierRaises
    \/ AgentSpawnOk
    \/ AgentSpawnFails
    \/ AgentInitializeOk
    \/ AgentInitializeFails
    \/ AgentCreateAgentOk
    \/ AgentCreateAgentFails
    \/ AgentQueryReturns
    \/ AgentQueryRaises
    \/ AgentExit
    \/ AgentExcept
    \/ AgentCleanup
    \/ AgentMain

SpecAgent ==
    InitAgent /\ [][NextAgent]_vars

(***************************************************************************)
(* Properties.                                                             *)
(***************************************************************************)
\* some required DB_* variable is unset or empty
SomeCredentialAbsent ==
    \E v \in {"DB_HOST", "DB_USER", "DB_PASSWORD", "DB_NAME"} :
        v \notin DOMAIN environ \/ environ[v] = ""

\* C1: when any of DB_HOST, DB_USER, DB_PASSWORD, DB_NAME is unset or empty,
\* process_chat_message goes from its start straight to its return, the
\* result has status error, the classifier is never called and no tool
\* process or session is ever spawned.
C1_MissingCredentialsFailFast ==
    SomeCredentialAbsent =>
        /\ pc \in {"idle", "start", "done"}
        /\ pc = "done" => outcome.kind = "return" /\ outcome.status = "error"
        /\ classifyCalls = 0
        /\ spawnCalls = 0
        /\ transport = "none"
        /\ session = "none"

\* C1 witness: process_chat_message has returned with DB_HOST present but
\* empty
C1_Witness ==
    /\ pc = "done"
    /\ "DB_HOST" \in DOMAIN environ
    /\ environ["DB_HOST"] = ""
    /\ outcome.status = "error"

\* C2: when the classifier's text contains "?", process_chat_message returns
\* status clarification with the trimmed text, and no tool process is
\* spawned and no session opened.
C2_QuestionIsClarification ==
    (classifierReturned /\ HasQuestionMark(classifier_content)) =>
        /\ pc = "done"
        /\ outcome = Return(Strip(classifier_content), "clarification")
        /\ spawnCalls = 0
        /\ transport = "none"
        /\ session = "none"

\* C2 witness: the classifier answered " ?" and the caller has the result
C2_Witness ==
    /\ classifierReturned
    /\ classifier_content = <<" ", "?">>
    /\ wpc = "done"
    /\ wresult.status = "clarification"

\* C3: every invocation that opened a session has closed it exactly once
\* when it ends, counting the exit of the session block and the call of
\* session.close() in DatabaseAgent.cleanup.
C3_CloseExactlyOnce ==
    (pc = "done" /\ session # "none") =>
        sessionExitCalls + cleanupCloseCalls = 1

\* C4: once process_chat_message has returned or raised, and so whenever
\* its caller holds the result, neither the session nor the transport is
\* open.
C4_NoSessionLeftOpen ==
    (pc = "done" \/ wpc = "done") =>
        /\ session # "open"
        /\ transport # "open"

\* C4 witness: the invocation was cancelled during the query and has ended
\* with session and transport closed
C4_Witness ==
    /\ pc = "done"
    /\ cancelledAt = "query"
    /\ outcome.kind = "cancelled"
    /\ session = "closed"
    /\ transport = "closed"

\* C5: when spawn, handshake, tool binding or the query round trip raises an
\* Exception, the session and transport are not left open, and (unless the
\* task is also cancelled) process_chat_message returns status error
\* instead of raising.
C5_LateFailureIsErrorResult ==
    (pc = "done"
       /\ raisedAt \in {"spawn", "initialize", "create_agent", "query"}) =>
        /\ session # "open"
        /\ transport # "open"
        /\ cancelledAt = "none" =>
             outcome.kind = "return" /\ outcome.status = "error"

\* C5 witness: the query raised, the session was closed and an error result
\* returned
C5_Witness ==
    /\ pc = "done"
    /\ raisedAt = "query"
    /\ cancelledAt = "none"
    /\ session = "closed"
    /\ outcome.status = "error"

\* C6: a failure of the classifier call never leaves process_chat_message
\* as an exception; it is returned as a status error result.
C6_ClassifierFailureAbsorbed ==
    (pc = "done" /\ raisedAt = "classify") =>
        outcome.kind = "return" /\ outcome.status = "error"

\* C7: when the query agent returns normally (and teardown succeeds), the
\* response is its trimmed final text, and the status is clarification if
\* that text has a "?" and no consultant listing, success otherwise.
C7_QueryStatusMapping ==
    (pc = "done" /\ queryReturned /\ ~teardownFailed /\ cancelledAt = "none") =>
        /\ outcome.kind = "return"
        /\ outcome.response = Strip(query_content)
        /\ outcome.status =
             IF HasQuestionMark(query_content)
                /\ ~Contains(query_content, FoundConsultants)
             THEN "clarification"
             ELSE "success"

\* C8: every result returned by process_chat_message or by
\* process_user_message_async has a status that is one of success,
\* clarification, error; and the wrapper always ends by returning a result.
C8_StatusAlwaysValid ==
    /\ (pc = "done" /\ outcome.kind = "return") => outcome.status \in Statuses
    /\ (wpc = "done" /\ wresult.kind = "return") => wresult.status \in Statuses
    /\ (wpc = "done" /\ entry = "ui") => wresult.kind = "return"

\* C8 witness: the wrapper has returned its timeout result
C8_Witness ==
    /\ wpc = "done"
    /\ timedOut
    /\ wresult.response = TimeoutMessage
    /\ wresult.status = "error"

\* C9: for the empty message (with the DB_* variables all present), neither
\* entry point calls the classifier or opens a session, and each returns
\* status error with "Please enter a valid message.".
C9_EmptyMessageShortCircuits ==
    (user_message = <<>> /\ ~SomeCredentialAbsent) =>
        /\ classifyCalls = 0
        /\ spawnCalls = 0
        /\ pc = "done" => outcome = EmptyMessageResult
        /\ wpc = "done" => wresult = EmptyMessageResult

\* C10: when the classifier's text is empty after trimming, the result is
\* status clarification with the non-empty default question, and the query
\* stage is never entered.
C10_EmptyClassificationAsksDefault ==
    (classifierReturned /\ Strip(classifier_content) = <<>>) =>
        /\ pc = "done"
        /\ outcome.kind = "return"
        /\ outcome.status = "clarification"
        /\ outcome.response = DefaultQuestion
        /\ outcome.response # <<>>
        /\ spawnCalls = 0
        /\ queryCalls = 0

\* C10 witness: the classifier answered with whitespace only
C10_Witness ==
    /\ classifierReturned
    /\ classifier_content = <<" ", " ">>
    /\ pc = "done"

\* C11: when wait_for's deadline passes at any await of the invocation, the
\* wrapper returns a status error result, and the session and transport the
\* cancelled invocation opened are closed.
C11_TimeoutReleasesSession ==
    (wpc = "done" /\ timedOut) =>
        /\ wresult.kind = "return"
        /\ wresult.status = "error"
        /\ session # "open"
        /\ transport # "open"

\* C11 witness: the deadline passed during the query round trip, the
\* session was closed and the wrapper returned its timeout result
C11_Witness ==
    /\ wpc = "done"
    /\ timedOut
    /\ cancelledAt = "query"
    /\ session = "closed"
    /\ transport = "closed"
    /\ wresult = TimeoutResult

\* C13: when the query agent has answered, a failure while closing the
\* session or transport (block exits or DatabaseAgent.cleanup) does not
\* change the outcome: process_chat_message still returns the success
\* result.
C13_TeardownFailureKeepsResult ==
    (pc = "done" /\ queryReturned /\ cancelledAt = "none") =>
        outcome = QueryResult(query_content)

\* the user texts of a history, in order
UserTexts(h) ==
    [i \in 1..Len(h) |-> h[i].user]

\* C14: in the UI flow every pending turn is eventually resolved: once a
\* message has been appended and processing set, whichever way the
\* invocation ends, the history comes to hold no pending turn and
\* processing returns to False.
C14_PendingTurnResolved ==
    (/\ processing
     /\ conversation_history # <<>>
     /\ conversation_history[Len(conversation_history)].assistant = None)
    ~> (/\ ~processing
        /\ \A i \in 1..Len(conversation_history) :
             conversation_history[i].assistant # None)

\* C14 witness: a pending turn was resolved by the wrapper's timeout result
C14_Witness ==
    /\ ~processing
    /\ Len(conversation_history) = 1
    /\ conversation_history[1].assistant = TimeoutMessage
    /\ turn_status = <<"error">>

\* C15: every turn of the history handed to process_user_message_async,
\* and so to process_chat_message, has an assistant text: the pending turn
\* is not part of it.
C15_HistoryArgumentResolved ==
    \A i \in 1..Len(history_arg) : history_arg[i].assistant # None

\* C15 witness: an invocation was handed a history of one resolved turn
C15_Witness ==
    /\ Len(history_arg) = 1
    /\ history_arg[1].assistant # None
    /\ Len(conversation_history) = 2
    /\ ~processing

\* C16: while processing is True no user message is accepted: no script
\* run appends or replaces a user text, so no second invocation is started
\* for the conversation while one is pending.
C16_SingleFlight ==
    [][processing =>
         UserTexts(conversation_history') = UserTexts(conversation_history)]_vars

\* C16 witness: a second message is being processed, accepted after the
\* first turn was resolved
C16_Witness ==
    /\ processing
    /\ Len(conversation_history) = 2
    /\ conversation_history[1].assistant # None
    /\ conversation_history[2].assistant = None

\* C18: the kinds of result stay apart up to the rendering: an error result
\* is not rendered by the clarification branch, a clarification result is
\* not rendered by the found or no-match branch, and the no-match result is
\* rendered by the no-match branch.
C18_StatusesRenderedApart ==
    \A i \in 1..Len(conversation_history) :
        LET text == conversation_history[i].assistant
        IN  /\ turn_status[i] = "error" =>
                 RenderBranch(text) # "clarification"
            /\ turn_status[i] = "clarification" =>
                 RenderBranch(text) \notin {"found", "no_match"}
            /\ (turn_status[i] = "success" /\ text = NoConsultantsFound) =>
                 RenderBranch(text) = "no_match"

\* C20 as stated: a turn whose assistant text is set is never modified or
\* removed by any script run.
C20_ResolvedTurnsKept ==
    [][\A i \in 1..Len(conversation_history) :
         conversation_history[i].assistant # None =>
           /\ Len(conversation_history') >= i
           /\ conversation_history'[i] = conversation_history[i]]_vars

\* C20 amended: a script run either empties the whole history (Clear
\* Conversation, only while nothing is being processed), or keeps every
\* turn whose assistant text is set unchanged and in place and shortens
\* nothing; and the history handed to an invocation is, after it, still the
\* turns before the one it resolved.
C20_ResolvedTurnsKeptUnlessCleared ==
    [][\/ /\ conversation_history' = <<>>
          /\ ~processing
          /\ history_arg' = history_arg
       \/ /\ Len(conversation_history') >= Len(conversation_history)
          /\ \A i \in 1..Len(conversation_history) :
               conversation_history[i].assistant # None =>
                 conversation_history'[i] = conversation_history[i]
          /\ history_arg' # history_arg =>
               history_arg' = SubSeq(conversation_history', 1,
                                     Len(conversation_history') - 1)]_vars

\* C20 witness: two turns, both resolved, the second by an invocation that
\* was handed the first
C20_Witness ==
    /\ Len(conversation_history) = 2
    /\ conversation_history[1].assistant # None
    /\ conversation_history[2].assistant # None
    /\ history_arg = <<conversation_history[1]>>

\* C19: no returned response text carries a credential value: two runs
\* that differ only in the values of the DB_* variables, with the same set
\* of variables present and the same model and tool behaviour, give the
\* caller the same thing.
C19_ResponseIndependentOfCredentialValues ==
    (leak_pc = "done" /\ leak_result_a.kind = "return"
                      /\ leak_result_a.status = "error")
        => leak_result_b = leak_result_a

\* C12: each invocation opens at most one session, opens it only after
\* the classifier has returned an answer that is no clarification, and no
\* session is called or closed by an invocation other than the one that
\* opened it, be that a concurrent one or a later one.
C12_OneSessionPerInvocation ==
    /\ \A i \in Invocations :
          /\ Cardinality(SessionsOf(i)) <= 1
          /\ SessionsOf(i) # {}
                => /\ c_pc[i] \notin {"start", "classify"}
                   /\ ~c_script[i].classifier_raises
                   /\ Strip(c_script[i].classifier) # <<>>
                   /\ ~HasQuestionMark(Strip(c_script[i].classifier))
    /\ \A u \in c_uses : sessions[u.session].owner = u.by

\* both invocations have ended with a query answered, each having opened,
\* called and closed a session of its own and no other
C12_Witness ==
    /\ \A i \in Invocations : c_pc[i] = "done" /\ c_outcome[i].status = "success"
    /\ Len(sessions) = 2
    /\ c_uses = {Use(1, 1), Use(2, 2)}

\* C17: two invocations interleaved at their awaits call and close only
\* their own sessions, no step writes the process environment, and each
\* invocation ends as it would have alone with the answers it was given.
C17_InterleavingSafe ==
    /\ [](/\ \A u \in c_uses : sessions[u.session].owner = u.by
          /\ \A i \in Invocations :
                c_pc[i] = "done" => c_outcome[i] = ScriptedOutcome(environ, c_script[i]))
    /\ [][environ' = environ]_vars

\* invocation 1 opened its session after invocation 2 did and has ended,
\* with its session closed by cleanup, while invocation 2 still waits for
\* its query on an open session
C17_Witness ==
    /\ session_has_close
    /\ Len(sessions) = 2
    /\ sessions[1].owner = 2
    /\ sessions[1].open
    /\ c_pc[2] = "query"
    /\ c_pc[1] = "done"
    /\ c_outcome[1].status = "success"
    /\ Use(1, 2) \in c_uses

\* the stage of the documented state machine an invocation is in
Stage ==
    IF \/ outcome.kind \in {"exception", "cancelled"}
       \/ outcome.kind = "return" /\ outcome.status = "error"
    THEN "ERROR_RETURN"
    ELSE CASE pc \in {"idle", "start"} -> "START"
           [] pc = "classify" -> "CLASSIFYING"
           [] pc \in {"spawn", "enter_session", "initialize", "create_agent"}
                -> "OPENING_SESSION"
           [] pc = "query" -> "QUERYING"
           [] pc \in {"exit_session", "exit_transport", "except", "cleanup",
                      "final_sleep"} -> "CLOSING_SESSION"
           [] pc = "done" -> IF outcome.status = "clarification"
                             THEN "CLARIFY_RETURN"
                             ELSE "DONE"

\* the transitions of the documented state machine
StageStep(s, t) ==
    \/ s = t
    \/ t = "ERROR_RETURN" /\ s \notin {"DONE", "CLARIFY_RETURN"}
    \/ <<s, t>> \in {<<"START", "CLASSIFYING">>,
                     <<"CLASSIFYING", "CLARIFY_RETURN">>,
                     <<"CLASSIFYING", "OPENING_SESSION">>,
                     <<"OPENING_SESSION", "QUERYING">>,
                     <<"QUERYING", "CLOSING_SESSION">>,
                     <<"CLOSING_SESSION", "DONE">>}

\* C22: every step of an invocation is a transition of the state machine
\* START, CLASSIFYING, CLARIFY_RETURN or OPENING_SESSION, QUERYING,
\* CLOSING_SESSION, DONE, with ERROR_RETURN reachable from every stage that
\* is not final; the classifier, the spawn and the query are each entered
\* at most once, and nothing of the invocation moves once it has ended.
C22_FollowsStateMachine ==
    [][/\ StageStep(Stage, Stage')
       /\ classifyCalls' <= 1 /\ spawnCalls' <= 1 /\ queryCalls' <= 1
       /\ pc = "done" => /\ pc' = "done"
                         /\ outcome' = outcome
                         /\ UNCHANGED <<counterVars, resourceVars>>]_vars

\* C22 witness: an invocation has gone through every stage to DONE
C22_Witness ==
    /\ pc = "done"
    /\ Stage = "DONE"
    /\ classifyCalls = 1
    /\ spawnCalls = 1
    /\ queryCalls = 1
    /\ sessionExitCalls = 1

\* C23: the query agent is created and run only on a session whose
\* initialize has returned; when the spawn or the handshake fails the query
\* agent is never run and the session is not left open for anyone.
C23_QueryOnlyAfterHandshake ==
    /\ pc \in {"create_agent", "query"} => initialized /\ session = "open"
    /\ queryCalls > 0 => initialized
    /\ queryReturned => initialized
    /\ raisedAt \in {"spawn", "initialize"} =>
          /\ queryCalls = 0
          /\ ~queryReturned
          /\ pc = "done" => session # "open" /\ transport # "open"

\* C23 witness: the handshake failed and the invocation has ended without
\* the query agent ever being run
C23_Witness ==
    /\ pc = "done"
    /\ raisedAt = "initialize"
    /\ ~initialized
    /\ queryCalls = 0
    /\ session = "closed"

\* C24: with all four variables present and a classifier answer that is
\* non-empty without "?", the query agent is run exactly once on the
\* trimmed answer, and when it returns the result is status success with
\* the trimmed final text.
C24_SpecialtiesQueriedOnce ==
    (/\ pc = "done"
     /\ ~SomeCredentialAbsent
     /\ classifierReturned
     /\ Strip(classifier_content) # <<>>
     /\ ~HasQuestionMark(classifier_content)
     /\ queryReturned
     /\ cancelledAt = "none") =>
        /\ queryCalls = 1
        /\ response_content = Strip(classifier_content)
        /\ outcome = Return(Strip(query_content), "success")

\* the first position of sub in text, 0 when it does not occur
FirstIndex(text, sub) ==
    IF Contains(text, sub)
    THEN CHOOSE i \in 1..Len(text) :
            /\ SubSeq(text, i, i + Len(sub) - 1) = sub
            /\ \A j \in 1..(i - 1) : SubSeq(text, j, j + Len(sub) - 1) # sub
    ELSE 0

\* C25: the error text for missing variables names every variable that is
\* unset or empty and none that is set, in the order DB_HOST, DB_USER,
\* DB_PASSWORD, DB_NAME.
C25_NamesExactlyMissing ==
    (pc = "done" /\ SomeCredentialAbsent) =>
        LET order == <<"DB_HOST", "DB_USER", "DB_PASSWORD", "DB_NAME">>
            absent(v) == v \notin DOMAIN environ \/ environ[v] = ""
            at(v) == FirstIndex(outcome.response, VarText(v))
        IN  /\ outcome.kind = "return"
            /\ outcome.status = "error"
            /\ \A i \in 1..4 : absent(order[i]) <=> at(order[i]) > 0
            /\ \A i, j \in 1..4 :
                  (i < j /\ absent(order[i]) /\ absent(order[j]))
                      => at(order[i]) < at(order[j])

\* C25 witness: DB_USER is unset and DB_NAME empty, the other two are set,
\* and the error text names DB_USER, then DB_NAME
C25_Witness ==
    /\ pc = "done"
    /\ DOMAIN environ = {"DB_HOST", "DB_PASSWORD", "DB_NAME"}
    /\ environ["DB_HOST"] = "v"
    /\ environ["DB_PASSWORD"] = "v"
    /\ environ["DB_NAME"] = ""
    /\ outcome.response = MissingPrefix \o VarText("DB_USER") \o CommaSpace
                              \o VarText("DB_NAME")

\* C26: in every state of the UI session, processing is set only when the
\* history is non-empty with a pending last turn, and a pending turn is
\* always the last one; so the input is never left disabled with nothing
\* to process.
C26_ProcessingHasPendingLast ==
    /\ processing =>
          /\ conversation_history # <<>>
          /\ conversation_history[Len(conversation_history)].assistant = None
    /\ \A i \in 1..Len(conversation_history) :
          conversation_history[i].assistant = None
              => i = Len(conversation_history)

\* C26 witness: a second message is being processed after a resolved first
\* turn
C26_Witness ==
    /\ processing
    /\ Len(conversation_history) = 2
    /\ conversation_history[1].assistant # None
    /\ conversation_history[2].assistant = None

\* C21: in the standalone flow missing DB variables raise ValueError before
\* the classifier is called or a tool process spawned; a failure from the
\* spawn onwards leaves analyze_symptoms_and_find_consultants as a
\* RuntimeError, and only once session and transport are closed and cleanup
\* has run; main returns 1 for every such failure and 0 for a normal end.
C21_StandaloneFailuresExitOne ==
    /\ SomeCredentialAbsent =>
          /\ a_classifyCalls = 0
          /\ a_spawnCalls = 0
          /\ a_pc \in {"returned", "done"} => a_outcome.kind = "ValueError"
    /\ (a_pc \in {"returned", "done"}
          /\ a_failedAt \in {"spawn", "initialize", "create_agent", "query", "exit"})
         => /\ a_outcome.kind = "RuntimeError"
            /\ a_cleanupCalls = 1
            /\ a_session # "open"
            /\ a_transport # "open"
    /\ a_pc = "done" =>
          exit_code = IF a_outcome.kind = "return" THEN 0 ELSE 1

\* C21 witness: the handshake raised a ValueError, which left the function
\* as a RuntimeError after the session was closed, and main returned 1
C21_Witness ==
    /\ a_pc = "done"
    /\ a_failedAt = "initialize"
    /\ a_outcome.kind = "RuntimeError"
    /\ a_session = "closed"
    /\ a_cleanupCalls = 1
    /\ exit_code = 1

\* C27: the standalone flow has no clarification short-circuit: whatever
\* the classifier answers, empty text and text with "?" included, it goes
\* on to spawn the tool process and open a session, where
\* process_chat_message does so only for a non-empty answer without "?".
C27_NoClarificationShortCircuit ==
    a_classifierReturned =>
        /\ a_spawnCalls = 1
        /\ a_pc # "classify"
        /\ (a_pc = "done" /\ a_failedAt = "none") =>
              a_session = "closed" /\ a_queryCalls = 1
        /\ LET chat == ScriptedOutcome(environ,
                          [NoScript EXCEPT !.classifier = specialties,
                                           !.query = <<"a">>])
           IN  (chat.status = "success")
                  <=> (specialties # <<>> /\ ~HasQuestionMark(specialties))

\* C27 witness: the classifier's answer had a "?", and the standalone flow
\* has opened a session, run the query agent and ended normally
C27_Witness ==
    /\ a_pc = "done"
    /\ HasQuestionMark(specialties)
    /\ a_queryCalls = 1
    /\ a_session = "closed"
    /\ a_outcome.kind = "return"
    /\ exit_code = 0

====
